---- MODULE Spec2Model ----
(***************************************************************************)
(* acrnprobe/probeutils.c: event ids, rotating log directories, crashfile  *)
(* reports and boot-id tracking.                                           *)
(*                                                                         *)
(* C strings are sequences of one-character strings.  A NULL pointer is    *)
(* the value NULL.  The file system is `files' (regular files, path to     *)
(* content) and `dirs' (directories made by mkdir).                        *)
(***************************************************************************)
EXTENDS Integers, Sequences, FiniteSets, TLC

VARIABLES
    files,          \* regular files: path -> content
    dirs,           \* directories created by mkdir
    sender,         \* get_sender_by_name("crashlog"): NoSender or its config
    gbuildversion,  \* process-wide build version string
    guuid,          \* process-wide device uuid string
    call,           \* the last call made: operation, arguments, results
    ncalls,         \* number of calls made so far
    files0,         \* the files as they were before the first call
    nres,           \* per mode: number of successful generate_log_dir calls
    allok,          \* per mode: every generate_log_dir call so far succeeded
    log,            \* the calls made so far, in order (boot-id and event-id runs)
    callers         \* per concurrent caller of generate_log_dir: where it is

vars == <<files, dirs, sender, gbuildversion, guuid, call, ncalls, files0,
          nres, allok, log, callers>>

----------------------------------------------------------------------------
(* Bounds of the model *)

\* largest maxcrashdirs configured
MaxSlotsBound == 2
\* generate_log_dir calls in one run
MaxCalls == 3
\* an initial counter value beyond every configured maxcrashdirs
BigCounter == 12
\* is_boot_id_changed calls in one run
MaxBootCalls == 3
\* length of the longest string argument handed to generate_crashfile
MaxValueLen == 1024
MaxUptimeSec == 130

----------------------------------------------------------------------------
(* Strings *)

NULL == <<"(null)">>

DigitChars == <<"0", "1", "2", "3", "4", "5", "6", "7", "8", "9">>

IsDigit(c) == \E i \in 1..10 : DigitChars[i] = c

DigitVal(c) == CHOOSE i \in 0..9 : DigitChars[i + 1] = c

\* the decimal digits of a non-negative number, as printf does without padding
RECURSIVE UDec(_)
UDec(n) == IF n < 10 THEN <<DigitChars[n + 1]>>
           ELSE UDec(n \div 10) \o <<DigitChars[(n % 10) + 1]>>

\* printf("%d") and printf("%u") of a value the model can hold
FmtD(n) == IF n < 0 THEN <<"-">> \o UDec(0 - n) ELSE UDec(n)

\* snprintf: at most size - 1 characters are stored
Truncate(s, size) == IF Len(s) > size - 1 THEN SubSeq(s, 1, size - 1) ELSE s

\* the value of a sequence of digits
RECURSIVE DigitsVal(_)
DigitsVal(s) == IF s = <<>> THEN 0
                ELSE 10 * DigitsVal(SubSeq(s, 1, Len(s) - 1)) + DigitVal(s[Len(s)])

\* the longest prefix of s made of digits
RECURSIVE DigitPrefix(_)
DigitPrefix(s) == IF s = <<>> \/ ~IsDigit(s[1]) THEN <<>>
                  ELSE <<s[1]>> \o DigitPrefix(Tail(s))

\* atoi of an unsigned decimal string: the leading digits, 0 when there are none
atoi(s) == DigitsVal(DigitPrefix(s))

Slash == <<"/">>

\* sprintf(.., "%s/%s", a, b)
PathJoin(a, b) == a \o Slash \o b

----------------------------------------------------------------------------
(* Configuration and file names *)

CRASH_CURRENT_LOG == <<"c", "u", "r", "r", "e", "n", "t", "c", "r", "a", "s", "h", "l", "o", "g">>
STATS_CURRENT_LOG == <<"c", "u", "r", "r", "e", "n", "t", "s", "t", "a", "t", "s", "l", "o", "g">>
VM_CURRENT_LOG == <<"c", "u", "r", "r", "e", "n", "t", "v", "m", "l", "o", "g">>
BOOTID_LOG == <<"c", "u", "r", "r", "e", "n", "t", "b", "o", "o", "t", "i", "d">>

SubdirCrashlog == <<"c", "r", "a", "s", "h", "l", "o", "g">>
SubdirStats == <<"s", "t", "a", "t", "s">>
SubdirVmevent == <<"v", "m", "e", "v", "e", "n", "t">>

\* enum e_dir_mode; MODE_INVALID stands for any other value of the enum type
Modes == {"MODE_CRASH", "MODE_STATS", "MODE_VMEVENT"}
AnyMode == Modes \cup {"MODE_INVALID"}

\* get_sender_by_name("crashlog") returned NULL
NoSender == [outdir |-> NULL, maxcrashdirs |-> NULL]

\* the output directory configured for the crashlog sender
SenderOutdir == <<"/", "v">>

Senders == {NoSender} \cup
           {[outdir |-> SenderOutdir, maxcrashdirs |-> UDec(n)] : n \in 1..MaxSlotsBound}

\* event ids handed to generate_log_dir
HashKeys == {<<"a", "7">>, <<"b">>}

----------------------------------------------------------------------------
(* fsutils collaborators *)

FileExists(fs, path) == path \in DOMAIN fs

WriteFile(fs, path, content) ==
    [p \in (DOMAIN fs) \cup {path} |-> IF p = path THEN content ELSE fs[p]]

IsNumber(s) == s # <<>> /\ \A i \in 1..Len(s) : IsDigit(s[i])

\* file_read_int: the counter in the file; a missing or malformed file reads as 0
file_read_int(fs, path, ioerr) ==
    IF ioerr THEN [res |-> -1, current |-> 0]
    ELSE IF ~FileExists(fs, path) \/ ~IsNumber(fs[path]) THEN [res |-> 0, current |-> 0]
    ELSE [res |-> 0, current |-> DigitsVal(fs[path])]

\* file_update_int: persist (current + 1) mod max
file_update_int(fs, path, current, max, ioerr) ==
    IF ioerr THEN [res |-> -1, files |-> fs]
    ELSE [res |-> 0, files |-> WriteFile(fs, path, UDec((current + 1) % max))]

----------------------------------------------------------------------------
(* DirectorySlotAllocator *)

\* the counter file of a mode: the path of the switch in reserve_log_folder
CounterPath(outdir, mode) ==
    CASE mode = "MODE_CRASH" -> PathJoin(outdir, CRASH_CURRENT_LOG)
      [] mode = "MODE_STATS" -> PathJoin(outdir, STATS_CURRENT_LOG)
      [] mode = "MODE_VMEVENT" -> PathJoin(outdir, VM_CURRENT_LOG)

\* the dir prefix of a mode: the dir of the switch in reserve_log_folder
DirPrefix(outdir, mode) ==
    CASE mode = "MODE_CRASH" -> PathJoin(outdir, SubdirCrashlog)
      [] mode = "MODE_STATS" -> PathJoin(outdir, SubdirStats)
      [] mode = "MODE_VMEVENT" -> PathJoin(outdir, SubdirVmevent)

\* the out-parameter current is not written before file_read_int is called
Unset == -1

reserve_log_folder_noadvance(fs, snd, mode, fault) ==
    IF snd = NoSender \/ mode \notin Modes
    THEN [ret |-> -1, dir |-> NULL, current |-> Unset, files |-> fs]
    ELSE LET rd == file_read_int(fs, CounterPath(snd.outdir, mode), fault = "read")
         IN  [ret |-> rd.res, dir |-> DirPrefix(snd.outdir, mode),
              current |-> rd.current, files |-> fs]

reserve_log_folder_strict(fs, snd, mode, fault) ==
    IF snd = NoSender \/ mode \notin Modes
    THEN [ret |-> -1, dir |-> NULL, current |-> Unset, files |-> fs]
    ELSE LET path == CounterPath(snd.outdir, mode)
             dir == DirPrefix(snd.outdir, mode)
         IN  IF fault = "read" \/ ~FileExists(fs, path) \/ ~IsNumber(fs[path])
             THEN [ret |-> -1, dir |-> dir, current |-> 0, files |-> fs]
             ELSE LET up == file_update_int(fs, path, DigitsVal(fs[path]),
                                            atoi(snd.maxcrashdirs), fault = "update")
                  IN  [ret |-> up.res, dir |-> dir, current |-> DigitsVal(fs[path]),
                       files |-> up.files]

reserve_log_folder_onecounter(fs, snd, mode, fault) ==
    IF snd = NoSender \/ mode \notin Modes
    THEN [ret |-> -1, dir |-> NULL, current |-> Unset, files |-> fs]
    ELSE LET path == CounterPath(snd.outdir, "MODE_CRASH")
             rd == file_read_int(fs, path, fault = "read")
             up == file_update_int(fs, path, rd.current, atoi(snd.maxcrashdirs),
                                   fault = "update")
         IN  IF rd.res < 0
             THEN [ret |-> rd.res, dir |-> DirPrefix(snd.outdir, mode),
                   current |-> rd.current, files |-> fs]
             ELSE [ret |-> up.res, dir |-> DirPrefix(snd.outdir, mode),
                   current |-> rd.current, files |-> up.files]

reserve_log_folder(fs, snd, mode, fault) ==
    IF snd = NoSender
    THEN [ret |-> -1, dir |-> NULL, current |-> Unset, files |-> fs]
    ELSE IF mode \notin Modes
    THEN [ret |-> -1, dir |-> NULL, current |-> Unset, files |-> fs]
    ELSE LET path == CounterPath(snd.outdir, mode)
             dir == DirPrefix(snd.outdir, mode)
             rd == file_read_int(fs, path, fault = "read")
         IN  IF rd.res < 0
             THEN [ret |-> rd.res, dir |-> dir, current |-> rd.current, files |-> fs]
             ELSE LET maxdirs == atoi(snd.maxcrashdirs)
                      up == file_update_int(fs, path, rd.current, maxdirs,
                                            fault = "update")
                  IN  [ret |-> up.res, dir |-> dir, current |-> rd.current,
                       files |-> up.files]

\* asprintf(&path, "%s%d_%s", dir, current, hashkey)
LogDirPath_sep(dir, current, hashkey) == dir \o Slash \o FmtD(current) \o <<"_">> \o hashkey

LogDirPath(dir, current, hashkey) == dir \o FmtD(current) \o <<"_">> \o hashkey

\* mkdir(path, 0777): fails when the path exists, or for any other reason
mkdir_fails(fs, ds, path, fault) == path \in ds \/ FileExists(fs, path) \/ fault = "mkdir"

generate_log_dir_rollback(fs, ds, snd, mode, hashkey, fault) ==
    LET r == reserve_log_folder(fs, snd, mode, fault)
        path == LogDirPath(r.dir, r.current, hashkey)
    IN  IF r.ret # 0
        THEN [ret |-> NULL, files |-> r.files, dirs |-> ds, current |-> r.current,
              infoerror |-> FALSE]
        ELSE IF fault = "asprintf" \/ mkdir_fails(r.files, ds, path, fault)
        THEN [ret |-> NULL, files |-> fs, dirs |-> ds, current |-> r.current,
              infoerror |-> TRUE]
        ELSE [ret |-> path, files |-> r.files, dirs |-> ds \cup {path},
              current |-> r.current, infoerror |-> FALSE]

generate_log_dir(fs, ds, snd, mode, hashkey, fault) ==
    LET r == reserve_log_folder(fs, snd, mode, fault)
        path == LogDirPath(r.dir, r.current, hashkey)
    IN  IF r.ret # 0
        THEN [ret |-> NULL, files |-> r.files, dirs |-> ds, current |-> r.current,
              infoerror |-> FALSE]
        ELSE IF fault = "asprintf"
        THEN [ret |-> NULL, files |-> r.files, dirs |-> ds, current |-> r.current,
              infoerror |-> TRUE]
        ELSE IF mkdir_fails(r.files, ds, path, fault)
        THEN [ret |-> NULL, files |-> r.files, dirs |-> ds, current |-> r.current,
              infoerror |-> TRUE]
        ELSE [ret |-> path, files |-> r.files, dirs |-> ds \cup {path},
              current |-> r.current, infoerror |-> FALSE]

\* what can go wrong in one generate_log_dir call: at most one step fails,
\* since the call returns at the first failure
DirFaults == {"none", "read", "update", "asprintf", "mkdir"}

NoCall == [op |-> "none"]

\* no concurrent callers: every run but the two-caller one
NoCallers == <<>>

BootIdA == <<"A">>
BootIdB == <<"B">>

\* the boot record: the path built in is_boot_id_changed
BootIdPath(snd) == PathJoin(snd.outdir, BOOTID_LOG)

\* the counter files a run may start with: none, or each holding the same text
InitialCounters == {<<>>, <<"0">>, UDec(BigCounter), <<"x">>}

\* the files of the output directory: the boot record, and the counter files
InitialFiles(snd, text) ==
    IF snd = NoSender THEN <<>>
    ELSE [p \in {BootIdPath(snd)} \cup
                 (IF text = <<>> THEN {} ELSE {CounterPath(snd.outdir, m) : m \in Modes})
            |-> IF p = BootIdPath(snd) THEN BootIdA ELSE text]

InitDir ==
    /\ sender \in Senders
    /\ \E text \in InitialCounters : files = InitialFiles(sender, text)
    /\ dirs = {}
    /\ gbuildversion = <<"1">>
    /\ guuid = <<"u">>
    /\ call = NoCall
    /\ ncalls = 0
    /\ files0 = files
    /\ nres = [m \in Modes |-> 0]
    /\ allok = [m \in Modes |-> TRUE]
    /\ log = <<>>
    /\ callers = NoCallers

GenerateLogDir ==
    /\ ncalls < MaxCalls
    /\ \E mode \in AnyMode, hashkey \in HashKeys, fault \in DirFaults :
         LET r == generate_log_dir(files, dirs, sender, mode, hashkey, fault)
         IN  /\ files' = r.files
             /\ dirs' = r.dirs
             /\ call' = [op |-> "generate_log_dir", mode |-> mode,
                         hashkey |-> hashkey, ret |-> r.ret,
                         current |-> r.current, infoerror |-> r.infoerror]
             /\ nres' = IF mode \in Modes /\ r.ret # NULL
                        THEN [nres EXCEPT ![mode] = @ + 1] ELSE nres
             /\ allok' = IF mode \in Modes /\ r.ret = NULL
                         THEN [allok EXCEPT ![mode] = FALSE] ELSE allok
    /\ ncalls' = ncalls + 1
    /\ UNCHANGED <<callers, sender, gbuildversion, guuid, files0, log>>

NextDir == GenerateLogDir

SpecDir == InitDir /\ [][NextDir]_vars

----------------------------------------------------------------------------
(* Two callers of generate_log_dir: the counter read, the counter update and
   the mkdir of one call are separate steps, and the steps of the two callers
   interleave freely *)

Callers == {1, 2}

\* reserve_log_folder up to and including file_read_int
reserve_read(fs, snd, mode, fault) ==
    IF snd = NoSender
    THEN [ret |-> -1, dir |-> NULL, current |-> Unset]
    ELSE IF mode \notin Modes
    THEN [ret |-> -1, dir |-> NULL, current |-> Unset]
    ELSE LET rd == file_read_int(fs, CounterPath(snd.outdir, mode), fault = "read")
         IN  [ret |-> rd.res, dir |-> DirPrefix(snd.outdir, mode),
              current |-> rd.current]

reserve_update_reread(fs, snd, mode, current, fault) ==
    LET path == CounterPath(snd.outdir, mode)
        up == file_update_int(fs, path, file_read_int(fs, path, FALSE).current,
                              atoi(snd.maxcrashdirs), fault = "update")
    IN  [ret |-> up.res, files |-> up.files]

\* reserve_log_folder from atoi to its return: the update with the index read
reserve_update(fs, snd, mode, current, fault) ==
    LET maxdirs == atoi(snd.maxcrashdirs)
        up == file_update_int(fs, CounterPath(snd.outdir, mode), current, maxdirs,
                              fault = "update")
    IN  [ret |-> up.res, files |-> up.files]

\* generate_log_dir after reserve_log_folder returned 0: asprintf and mkdir
make_log_dir(fs, ds, dir, current, hashkey, fault) ==
    LET path == LogDirPath(dir, current, hashkey)
    IN  IF fault = "asprintf" THEN [ret |-> NULL, dirs |-> ds, infoerror |-> TRUE]
        ELSE IF mkdir_fails(fs, ds, path, fault)
        THEN [ret |-> NULL, dirs |-> ds, infoerror |-> TRUE]
        ELSE [ret |-> path, dirs |-> ds \cup {path}, infoerror |-> FALSE]

\* the categories the two callers reserve in
RaceModes == {"MODE_CRASH", "MODE_STATS"}

IdleCaller == [pc |-> "read", mode |-> "MODE_CRASH", dir |-> NULL, current |-> Unset,
               updated |-> FALSE, ret |-> NULL]

InitRace ==
    /\ sender \in Senders
    /\ \E text \in InitialCounters : files = InitialFiles(sender, text)
    /\ dirs = {}
    /\ gbuildversion = <<"1">>
    /\ guuid = <<"u">>
    /\ call = NoCall
    /\ ncalls = 0
    /\ files0 = files
    /\ nres = [m \in Modes |-> 0]
    /\ allok = [m \in Modes |-> TRUE]
    /\ log = <<>>
    /\ callers = [p \in Callers |-> IdleCaller]

\* caller p enters generate_log_dir and reads the counter of its category
CallerRead(p) ==
    /\ callers[p].pc = "read"
    /\ \E mode \in RaceModes, fault \in {"none", "read"} :
         LET r == reserve_read(files, sender, mode, fault)
         IN  callers' = [callers EXCEPT ![p] =
                 [@ EXCEPT !.pc = IF r.ret < 0 THEN "done" ELSE "update",
                           !.mode = mode, !.dir = r.dir, !.current = r.current]]
    /\ log' = Append(log, [op |-> "read", caller |-> p])
    /\ UNCHANGED <<files, dirs, sender, gbuildversion, guuid, call, ncalls, files0,
                   nres, allok>>

\* caller p updates the counter with the index it read
CallerUpdate(p) ==
    /\ callers[p].pc = "update"
    /\ \E fault \in {"none", "update"} :
         LET u == reserve_update(files, sender, callers[p].mode, callers[p].current,
                                 fault)
         IN  /\ files' = u.files
             /\ callers' = [callers EXCEPT ![p] =
                    [@ EXCEPT !.pc = IF u.ret # 0 THEN "done" ELSE "mkdir",
                              !.updated = (u.ret = 0)]]
    /\ log' = Append(log, [op |-> "update", caller |-> p])
    /\ UNCHANGED <<dirs, sender, gbuildversion, guuid, call, ncalls, files0, nres,
                   allok>>

\* caller p builds the path, makes the directory and returns
CallerMkdir(p) ==
    /\ callers[p].pc = "mkdir"
    /\ \E hashkey \in HashKeys, fault \in {"none", "asprintf", "mkdir"} :
         LET r == make_log_dir(files, dirs, callers[p].dir, callers[p].current,
                               hashkey, fault)
         IN  /\ dirs' = r.dirs
             /\ callers' = [callers EXCEPT ![p] = [@ EXCEPT !.pc = "done", !.ret = r.ret]]
    /\ log' = Append(log, [op |-> "mkdir", caller |-> p])
    /\ UNCHANGED <<files, sender, gbuildversion, guuid, call, ncalls, files0, nres,
                   allok>>

NextRace == \E p \in Callers : CallerRead(p) \/ CallerUpdate(p) \/ CallerMkdir(p)

SpecRace == InitRace /\ [][NextRace]_vars

----------------------------------------------------------------------------
(* BootSessionTracker *)

\* read_file(BOOTID_NODE, ..): unreadable, empty, or a boot id
BootNodes == {[res |-> -1, data |-> <<>>], [res |-> 0, data |-> <<>>],
              [res |-> 0, data |-> BootIdA], [res |-> 0, data |-> BootIdB]}

\* read_file of a regular file: -1 on failure, else its size and content
read_file(fs, path, ioerr) ==
    IF ioerr \/ ~FileExists(fs, path) THEN [res |-> -1, size |-> 0, data |-> <<>>]
    ELSE [res |-> 0, size |-> Len(fs[path]), data |-> fs[path]]

\* overwrite_file: replace the content of the file, or fail and leave it as it was
overwrite_file(fs, path, content, ioerr) ==
    IF ioerr THEN [res |-> -1, files |-> fs]
    ELSE [res |-> 0, files |-> WriteFile(fs, path, content)]

\* strcmp(a, b) == 0
StrEqual(a, b) == a = b

is_boot_id_changed_nowrite(fs, snd, node, fault) ==
    IF snd = NoSender \/ node.res = -1 \/ Len(node.data) = 0 \/ fault = "read"
       \/ ~FileExists(fs, BootIdPath(snd))
    THEN [result |-> 1, files |-> fs, wrote |-> FALSE]
    ELSE [result |-> IF StrEqual(fs[BootIdPath(snd)], node.data) THEN 0 ELSE 1,
          files |-> fs, wrote |-> FALSE]

is_boot_id_changed_anynode(fs, snd, node, fault) ==
    IF snd = NoSender
    THEN [result |-> 1, files |-> fs, wrote |-> FALSE]
    ELSE LET path == BootIdPath(snd)
             logged == read_file(fs, path, fault = "read")
             ow == overwrite_file(fs, path, node.data, fault = "write")
         IN  IF FileExists(fs, path) /\ (logged.res = -1 \/ logged.size = 0)
             THEN [result |-> 1, files |-> fs, wrote |-> FALSE]
             ELSE IF FileExists(fs, path) /\ StrEqual(logged.data, node.data)
             THEN [result |-> 0, files |-> fs, wrote |-> FALSE]
             ELSE [result |-> 1, files |-> ow.files, wrote |-> TRUE]

is_boot_id_changed(fs, snd, node, fault) ==
    IF snd = NoSender
    THEN [result |-> 1, files |-> fs, wrote |-> FALSE]
    ELSE IF node.res = -1 \/ Len(node.data) = 0
    THEN [result |-> 1, files |-> fs, wrote |-> FALSE]
    ELSE LET path == BootIdPath(snd)
             logged == read_file(fs, path, fault = "read")
             ow == overwrite_file(fs, path, node.data, fault = "write")
         IN  IF FileExists(fs, path) /\ (logged.res = -1 \/ logged.size = 0)
             THEN [result |-> 1, files |-> fs, wrote |-> FALSE]
             ELSE IF FileExists(fs, path) /\ StrEqual(logged.data, node.data)
             THEN [result |-> 0, files |-> fs, wrote |-> FALSE]
             ELSE [result |-> 1, files |-> ow.files, wrote |-> TRUE]

\* what can go wrong in one is_boot_id_changed call besides the boot-id node
BootFaults == {"none", "read", "write"}

\* the persisted boot record a run may start with: none, empty, or a boot id
InitialRecords == {NULL, <<>>, BootIdA, BootIdB}

\* the content of the boot record, NULL when there is no such file
BootRecord(fs, snd) ==
    IF snd # NoSender /\ FileExists(fs, BootIdPath(snd)) THEN fs[BootIdPath(snd)]
    ELSE NULL

InitBoot ==
    /\ sender \in {NoSender, [outdir |-> SenderOutdir, maxcrashdirs |-> <<"1">>]}
    /\ \E rec \in InitialRecords :
         files = IF rec = NULL \/ sender = NoSender THEN <<>>
                 ELSE [p \in {BootIdPath(sender)} |-> rec]
    /\ dirs = {}
    /\ gbuildversion = <<"1">>
    /\ guuid = <<"u">>
    /\ call = NoCall
    /\ ncalls = 0
    /\ files0 = files
    /\ nres = [m \in Modes |-> 0]
    /\ allok = [m \in Modes |-> TRUE]
    /\ log = <<>>
    /\ callers = NoCallers

IsBootIdChanged ==
    /\ ncalls < MaxBootCalls
    /\ \E node \in BootNodes, fault \in BootFaults :
         LET r == is_boot_id_changed(files, sender, node, fault)
             c == [op |-> "is_boot_id_changed", node |-> node, fault |-> fault,
                   prior |-> BootRecord(files, sender), result |-> r.result,
                   wrote |-> r.wrote, after |-> BootRecord(r.files, sender)]
         IN  /\ files' = r.files
             /\ call' = c
             /\ log' = Append(log, c)
    /\ ncalls' = ncalls + 1
    /\ UNCHANGED <<callers, dirs, sender, gbuildversion, guuid, files0, nres, allok>>

NextBoot == IsBootIdChanged

SpecBoot == InitBoot /\ [][NextBoot]_vars

----------------------------------------------------------------------------
(* Clocks *)

\* nanoseconds in a second: get_uptime's multiplier, get_uptime_string's divisor
NsPerSec == 1000000000

\* A long long time in nanoseconds is held as [q, r], standing for
\* q * NsPerSec + r with |r| < NsPerSec (C's truncating division by NsPerSec);
\* -1 is [q |-> 0, r |-> -1].
MinusOne == [q |-> 0, r |-> -1]

\* clock_gettime(CLOCK_BOOTTIME, &ts): res and the timespec
BootClocks == {[res |-> -1, tv_sec |-> 0, tv_nsec |-> 0],
               [res |-> 0, tv_sec |-> 3725, tv_nsec |-> 7],
               [res |-> 0, tv_sec |-> 3725, tv_nsec |-> 8]}

get_uptime(clock) ==
    IF clock.res = -1 THEN MinusOne
    ELSE [q |-> clock.tv_sec + (clock.tv_nsec \div NsPerSec),
          r |-> clock.tv_nsec % NsPerSec]

\* printf("%0<width>d") of a non-negative number
RECURSIVE ZeroPad(_, _)
ZeroPad(s, width) == IF Len(s) >= width THEN s ELSE ZeroPad(<<"0">> \o s, width)

\* size of the uptime buffer (probeutils.h)
UPTIME_SIZE == 24

get_uptime_string_minutes(clock) ==
    LET tm == get_uptime(clock)
        secs == tm.q
        text == Truncate(ZeroPad(UDec((secs \div 60) \div 60), 4) \o <<":">>
                           \o ZeroPad(UDec(secs \div 60), 2) \o <<":">>
                           \o ZeroPad(UDec(secs % 60), 2), UPTIME_SIZE)
    IN  IF tm = MinusOne THEN [ret |-> -1, newuptime |-> <<>>, written |-> FALSE]
        ELSE [ret |-> Len(text), newuptime |-> text, written |-> TRUE]

\* (int)(tm / 1000000000LL) is the quotient itself for the seconds held here,
\* all below 2^31
get_uptime_string(clock) ==
    LET tm == get_uptime(clock)
        secs == tm.q
        seconds == secs % 60
        minutes == (secs \div 60) % 60
        hours == (secs \div 60) \div 60
        text == Truncate(ZeroPad(UDec(hours), 4) \o <<":">> \o ZeroPad(UDec(minutes), 2)
                           \o <<":">> \o ZeroPad(UDec(seconds), 2), UPTIME_SIZE)
    IN  IF tm = MinusOne THEN [ret |-> -1, newuptime |-> <<>>, written |-> FALSE]
        ELSE [ret |-> Len(text), newuptime |-> text, written |-> TRUE]

\* boot-relative seconds: the first minutes, and the values around the hour, the
\* day, the fifth hours digit and the largest int
UptimeSecs == (0..MaxUptimeSec) \cup {3599, 3600, 3661, 86399, 86400, 35999999,
                                      36000000, 2147483647}

\* clock_gettime(CLOCK_BOOTTIME): unreadable, or a time since boot
UptimeClocks == {[res |-> -1, tv_sec |-> 0, tv_nsec |-> 0]} \cup
                {[res |-> 0, tv_sec |-> s, tv_nsec |-> n] :
                     s \in UptimeSecs, n \in {0, NsPerSec - 1}}

InitUptime ==
    /\ sender = NoSender
    /\ files = <<>>
    /\ dirs = {}
    /\ gbuildversion = <<"1">>
    /\ guuid = <<"u">>
    /\ call = NoCall
    /\ ncalls = 0
    /\ files0 = files
    /\ nres = [m \in Modes |-> 0]
    /\ allok = [m \in Modes |-> TRUE]
    /\ log = <<>>
    /\ callers = NoCallers

\* one get_uptime_string call in a run
GetUptimeString ==
    /\ call = NoCall
    /\ \E clock \in UptimeClocks :
         LET r == get_uptime_string(clock)
         IN  call' = [op |-> "get_uptime_string", clock |-> clock, ret |-> r.ret,
                      newuptime |-> r.newuptime, written |-> r.written]
    /\ ncalls' = ncalls + 1
    /\ UNCHANGED <<callers, files, dirs, sender, gbuildversion, guuid, files0, nres, allok, log>>

NextUptime == GetUptimeString

SpecUptime == InitUptime /\ [][NextUptime]_vars

\* localtime(): NULL, or a broken-down local time
WallClocks == {[ok |-> FALSE, year |-> 0, mon |-> 0, mday |-> 0, hour |-> 0, min |-> 0, sec |-> 0],
               [ok |-> TRUE, year |-> 2018, mon |-> 6, mday |-> 1, hour |-> 9, min |-> 30, sec |-> 5]}

\* size of the datetime buffer (probeutils.h)
LONG_TIME_SIZE == 32

\* strftime(buf, LONG_TIME_SIZE, "%Y-%m-%d/%H:%M:%S  ", time_val)
get_current_time_long(wall) ==
    LET text == UDec(wall.year) \o <<"-">> \o ZeroPad(UDec(wall.mon), 2) \o <<"-">>
                  \o ZeroPad(UDec(wall.mday), 2) \o <<"/">> \o ZeroPad(UDec(wall.hour), 2)
                  \o <<":">> \o ZeroPad(UDec(wall.min), 2) \o <<":">>
                  \o ZeroPad(UDec(wall.sec), 2) \o <<" ", " ">>
    IN  IF ~wall.ok THEN [ret |-> -1, buf |-> <<>>]
        ELSE IF Len(text) + 1 > LONG_TIME_SIZE THEN [ret |-> 0, buf |-> <<>>]
        ELSE [ret |-> Len(text), buf |-> text]

----------------------------------------------------------------------------
(* CrashReportWriter *)

NL == <<"\n">>

\* size of the line buffer __buf of strcat_fmt
STRCAT_BUF_SIZE == 1024

\* strcat_fmt(buf, "<key>%s\n", arg): the line is formatted into __buf by
\* snprintf, then appended
strcat_fmt(buf, key, arg) == buf \o Truncate(key \o arg \o NL, STRCAT_BUF_SIZE)

KeyEvent == <<"E", "V", "E", "N", "T", "=">>
KeyId == <<"I", "D", "=">>
KeyDeviceId == <<"D", "E", "V", "I", "C", "E", "I", "D", "=">>
KeyDate == <<"D", "A", "T", "E", "=">>
KeyUptime == <<"U", "P", "T", "I", "M", "E", "=">>
KeyBuild == <<"B", "U", "I", "L", "D", "=">>
KeyType == <<"T", "Y", "P", "E", "=">>
KeyData0 == <<"D", "A", "T", "A", "0", "=">>
KeyData1 == <<"D", "A", "T", "A", "1", "=">>
KeyData2 == <<"D", "A", "T", "A", "2", "=">>
EndLine == <<"_", "E", "N", "D", "\n">>
CrashfileName == <<"c", "r", "a", "s", "h", "f", "i", "l", "e">>

\* the report text generate_crashfile builds in buf
ReportText(a, datetime, uptime, build, uuid) ==
    LET b1 == strcat_fmt(<<>>, KeyEvent, a.event)
        b2 == strcat_fmt(b1, KeyId, a.hashkey)
        b3 == strcat_fmt(b2, KeyDeviceId, uuid)
        b4 == strcat_fmt(b3, KeyDate, datetime)
        b5 == strcat_fmt(b4, KeyUptime, uptime)
        b6 == strcat_fmt(b5, KeyBuild, build)
        b7 == strcat_fmt(b6, KeyType, a.type)
        b8 == IF a.data0 # NULL THEN strcat_fmt(b7, KeyData0, a.data0) ELSE b7
        b9 == IF a.data1 # NULL THEN strcat_fmt(b8, KeyData1, a.data1) ELSE b8
        b10 == IF a.data2 # NULL THEN strcat_fmt(b9, KeyData2, a.data2) ELSE b9
    IN  b10 \o EndLine

\* the function is void: its caller is handed the same nothing on every path
VoidResult == <<"v", "o", "i", "d">>

generate_crashfile_silent(fs, a, build, uuid, wall, clock, fault) ==
    LET dt == get_current_time_long(wall)
        up == get_uptime_string(clock)
        uptime == IF up.written THEN up.newuptime ELSE <<>>
        buf == ReportText(a, dt.buf, uptime, build, uuid)
        path == PathJoin(a.dir, CrashfileName)
        ow == overwrite_file(fs, path, buf, fault = "write")
    IN  IF dt.ret <= 0
        THEN [ret |-> VoidResult, files |-> fs, datetime |-> dt.buf, uptime |-> <<>>,
              wrote |-> FALSE, writes |-> 0, loge |-> FALSE]
        ELSE IF fault = "malloc" \/ fault = "asprintf"
        THEN [ret |-> VoidResult, files |-> fs, datetime |-> dt.buf, uptime |-> uptime,
              wrote |-> FALSE, writes |-> 0, loge |-> TRUE]
        ELSE [ret |-> VoidResult, files |-> ow.files, datetime |-> dt.buf,
              uptime |-> uptime, wrote |-> ow.res = 0, writes |-> 1,
              loge |-> FALSE]

generate_crashfile_nodatecheck(fs, a, build, uuid, wall, clock, fault) ==
    LET dt == get_current_time_long(wall)
        up == get_uptime_string(clock)
        uptime == IF up.written THEN up.newuptime ELSE <<>>
        buf == ReportText(a, dt.buf, uptime, build, uuid)
        path == PathJoin(a.dir, CrashfileName)
        ow == overwrite_file(fs, path, buf, fault = "write")
    IN  IF FALSE
        THEN [ret |-> VoidResult, files |-> fs, datetime |-> dt.buf, uptime |-> <<>>,
              wrote |-> FALSE, writes |-> 0, loge |-> FALSE]
        ELSE IF fault = "malloc" \/ fault = "asprintf"
        THEN [ret |-> VoidResult, files |-> fs, datetime |-> dt.buf, uptime |-> uptime,
              wrote |-> FALSE, writes |-> 0, loge |-> TRUE]
        ELSE [ret |-> VoidResult, files |-> ow.files, datetime |-> dt.buf,
              uptime |-> uptime, wrote |-> ow.res = 0, writes |-> 1,
              loge |-> ow.res # 0]

generate_crashfile_needuptime(fs, a, build, uuid, wall, clock, fault) ==
    LET dt == get_current_time_long(wall)
        up == get_uptime_string(clock)
        uptime == IF up.written THEN up.newuptime ELSE <<>>
        buf == ReportText(a, dt.buf, uptime, build, uuid)
        path == PathJoin(a.dir, CrashfileName)
        ow == overwrite_file(fs, path, buf, fault = "write")
    IN  IF dt.ret <= 0 \/ up.ret = -1
        THEN [ret |-> VoidResult, files |-> fs, datetime |-> dt.buf, uptime |-> <<>>,
              wrote |-> FALSE, writes |-> 0, loge |-> FALSE]
        ELSE IF fault = "malloc" \/ fault = "asprintf"
        THEN [ret |-> VoidResult, files |-> fs, datetime |-> dt.buf, uptime |-> uptime,
              wrote |-> FALSE, writes |-> 0, loge |-> TRUE]
        ELSE [ret |-> VoidResult, files |-> ow.files, datetime |-> dt.buf,
              uptime |-> uptime, wrote |-> ow.res = 0, writes |-> 1,
              loge |-> ow.res # 0]

\* a: the arguments dir, event, hashkey, type, data0, data1, data2.
\* The buffer of filesize bytes holds the text: the fixed parts of the ten
\* lines and of _END take 75 bytes of the 128 counted for them.
\* writes counts the calls of overwrite_file, loge tells whether LOGE was called.
generate_crashfile(fs, a, build, uuid, wall, clock, fault) ==
    LET dt == get_current_time_long(wall)
        up == get_uptime_string(clock)
        uptime == IF up.written THEN up.newuptime ELSE <<>>
        buf == ReportText(a, dt.buf, uptime, build, uuid)
        path == PathJoin(a.dir, CrashfileName)
        ow == overwrite_file(fs, path, buf, fault = "write")
    IN  IF dt.ret <= 0
        THEN [ret |-> VoidResult, files |-> fs, datetime |-> dt.buf, uptime |-> <<>>,
              wrote |-> FALSE, writes |-> 0, loge |-> FALSE]
        ELSE IF fault = "malloc" \/ fault = "asprintf"
        THEN [ret |-> VoidResult, files |-> fs, datetime |-> dt.buf, uptime |-> uptime,
              wrote |-> FALSE, writes |-> 0, loge |-> TRUE]
        ELSE [ret |-> VoidResult, files |-> ow.files, datetime |-> dt.buf,
              uptime |-> uptime, wrote |-> ow.res = 0, writes |-> 1,
              loge |-> ow.res # 0]

\* a string of n characters
Chars(n) == [i \in 1..n |-> "x"]

\* string arguments: a short one, and ones around the size of strcat_fmt's buffer
Values == {<<"k">>, Chars(MaxValueLen - 8), Chars(MaxValueLen)}
ShortValues == {<<"k">>}
OptValues == {NULL, <<"d">>, Chars(MaxValueLen)}

\* the directory the report is written into
ReportDir == <<"/", "v", "/", "c", "r", "a", "s", "h", "l", "o", "g", "0", "_", "b">>

CrashfilePath == PathJoin(ReportDir, CrashfileName)

ReportFaults == {"none", "malloc", "asprintf", "write"}

InitReport ==
    /\ sender = [outdir |-> SenderOutdir, maxcrashdirs |-> <<"1">>]
    /\ files \in {<<>>, [p \in {CrashfilePath} |-> <<"o", "l", "d", "\n">>]}
    /\ dirs = {ReportDir}
    /\ gbuildversion \in {<<"1">>, Chars(MaxValueLen)}
    /\ guuid = <<"u">>
    /\ call = NoCall
    /\ ncalls = 0
    /\ files0 = files
    /\ nres = [m \in Modes |-> 0]
    /\ allok = [m \in Modes |-> TRUE]
    /\ log = <<>>
    /\ callers = NoCallers

\* one report is written in a run
GenerateCrashfile ==
    /\ call = NoCall
    /\ \E event \in ShortValues, hashkey \in ShortValues, type \in Values,
          data0 \in OptValues, data1 \in OptValues, data2 \in OptValues,
          wall \in WallClocks, clock \in BootClocks, fault \in ReportFaults :
         LET a == [dir |-> ReportDir, event |-> event, hashkey |-> hashkey,
                   type |-> type, data0 |-> data0, data1 |-> data1, data2 |-> data2]
             r == generate_crashfile(files, a, gbuildversion, guuid, wall, clock, fault)
         IN  /\ files' = r.files
             /\ call' = [op |-> "generate_crashfile", args |-> a, wall |-> wall,
                         clock |-> clock, fault |-> fault, datetime |-> r.datetime,
                         uptime |-> r.uptime, wrote |-> r.wrote, loge |-> r.loge,
                         ret |-> r.ret, writes |-> r.writes]
    /\ ncalls' = ncalls + 1
    /\ UNCHANGED <<callers, dirs, sender, gbuildversion, guuid, files0, nres, allok, log>>

NextReport == GenerateCrashfile

SpecReport == InitReport /\ [][NextReport]_vars

----------------------------------------------------------------------------
(* HashKeyGenerator *)

\* size of the salt buffer buf of compute_key (property.h)
VERSION_SIZE == 256
\* bytes in a digest (openssl/sha.h)
SHA256_DIGEST_LENGTH == 32
\* characters in an event id of type KEY_SHORT and of type KEY_LONG
SHORT_KEY_LENGTH == 20
LONG_KEY_LENGTH == 32

\* printf("%lld") of a time held as [q, r]
FmtLLD(t) == IF t.r < 0 THEN <<"-">> \o UDec(0 - t.r)
             ELSE IF t.q = 0 THEN UDec(t.r)
             ELSE UDec(t.q) \o ZeroPad(UDec(t.r), 9)

HexChars == <<"0", "1", "2", "3", "4", "5", "6", "7", "8", "9", "a", "b", "c", "d", "e", "f">>

Hex2_nopad(b) == IF b < 16 THEN <<HexChars[b + 1]>>
                 ELSE <<HexChars[(b \div 16) + 1], HexChars[(b % 16) + 1]>>

\* sprintf("%02x") of a byte
Hex2(b) == <<HexChars[(b \div 16) + 1], HexChars[(b % 16) + 1]>>

Alphabet == DigitChars \o <<"-", "k", "s", "t", "u", "x">>

CharCode(c) == IF \E i \in 1..Len(Alphabet) : Alphabet[i] = c
               THEN CHOOSE i \in 1..Len(Alphabet) : Alphabet[i] = c
               ELSE 0

\* SHA256_Init, _Update, _Final of the library: the digest of the bytes fed.
\* The model's digest is a stand-in, a fixed function of the number of bytes fed
\* and of the last eight of them.
SHA256(fed) ==
    LET len == Len(fed)
        tail == SubSeq(fed, IF len > 8 THEN len - 7 ELSE 1, len)
        code == [k \in 1..Len(tail) |-> CharCode(tail[k]) * (k + 16)]
        sum == IF tail = <<>> THEN 0
               ELSE LET acc[k \in 1..Len(tail)] ==
                            IF k = 1 THEN code[1] ELSE (acc[k - 1] * 31 + code[k]) % 65521
                    IN  acc[Len(tail)]
    IN  [i \in 1..SHA256_DIGEST_LENGTH |-> (sum * i + len + 13 * i) % 256]

RECURSIVE HexKey(_, _)
HexKey(results, n) == IF n = 0 THEN <<>> ELSE HexKey(results, n - 1) \o Hex2(results[n])

\* the salt: snprintf(buf, VERSION_SIZE, "%s%s%lld", gbuildversion, guuid, time_ns)
Salt(build, uuid, time_ns) == Truncate(build \o uuid \o FmtLLD(time_ns), VERSION_SIZE)

\* key is the buffer generate_event_id allocated, never NULL here
compute_key(key_len, seed, build, uuid, clock) ==
    IF seed = NULL
    THEN [ret |-> -1, key |-> NULL, fed |-> NULL]
    ELSE IF key_len > SHA256_DIGEST_LENGTH * 2 \/ key_len = 0
    THEN [ret |-> -1, key |-> NULL, fed |-> NULL]
    ELSE LET time_ns == get_uptime(clock)
             buf == Salt(build, uuid, time_ns)
             fed == buf \o seed
             results == SHA256(fed)
         IN  [ret |-> 0, key |-> HexKey(results, key_len \div 2), fed |-> fed]

KeyTypes == {"KEY_SHORT", "KEY_LONG", "KEY_OTHER"}

generate_event_id_nonempty(seed1, seed2, type, build, uuid, clock, fault) ==
    IF seed1 = NULL \/ seed1 = <<>> \/ type = "KEY_OTHER" \/ fault # "none"
    THEN [ret |-> NULL, fed |-> NULL]
    ELSE LET klen == IF type = "KEY_SHORT" THEN SHORT_KEY_LENGTH ELSE LONG_KEY_LENGTH
             c == compute_key(klen, IF seed2 # NULL THEN seed1 \o seed2 ELSE seed1,
                              build, uuid, clock)
         IN  [ret |-> c.key, fed |-> c.fed]

generate_event_id(seed1, seed2, type, build, uuid, clock, fault) ==
    IF seed1 = NULL
    THEN [ret |-> NULL, fed |-> NULL]
    ELSE IF type \notin {"KEY_SHORT", "KEY_LONG"}
    THEN [ret |-> NULL, fed |-> NULL]
    ELSE IF fault = "malloc"
    THEN [ret |-> NULL, fed |-> NULL]
    ELSE IF seed2 # NULL /\ fault = "asprintf"
    THEN [ret |-> NULL, fed |-> NULL]
    ELSE LET klen == IF type = "KEY_SHORT" THEN SHORT_KEY_LENGTH ELSE LONG_KEY_LENGTH
             c == compute_key(klen, IF seed2 # NULL THEN seed1 \o seed2 ELSE seed1,
                              build, uuid, clock)
         IN  IF c.ret < 0 THEN [ret |-> NULL, fed |-> c.fed]
             ELSE [ret |-> c.key, fed |-> c.fed]

Seeds1 == {NULL, <<>>, <<"s">>}
Seeds2 == {NULL, <<"t">>}
\* the allocation that fails, should the call come to make it
KeyFaults == {"none", "malloc", "asprintf"}

\* build versions: a short one, and one that with the uuid and the digits of
\* the time fills the salt buffer
BuildVersions == {<<"1">>, Chars(VERSION_SIZE - 14)}

InitKey ==
    /\ sender = [outdir |-> SenderOutdir, maxcrashdirs |-> <<"1">>]
    /\ files = <<>>
    /\ dirs = {}
    /\ gbuildversion \in BuildVersions
    /\ guuid = <<"u">>
    /\ call = NoCall
    /\ ncalls = 0
    /\ files0 = files
    /\ nres = [m \in Modes |-> 0]
    /\ allok = [m \in Modes |-> TRUE]
    /\ log = <<>>
    /\ callers = NoCallers

KeyCallRecord(seed1, seed2, type, clock, fault) ==
    LET r == generate_event_id(seed1, seed2, type, gbuildversion, guuid, clock, fault)
    IN  [op |-> "generate_event_id", seed1 |-> seed1, seed2 |-> seed2,
         type |-> type, clock |-> clock, fault |-> fault, ret |-> r.ret,
         fed |-> r.fed]

GenerateEventId ==
    /\ \E seed1 \in Seeds1, seed2 \in Seeds2, type \in KeyTypes,
          clock \in BootClocks, fault \in KeyFaults :
         call' = KeyCallRecord(seed1, seed2, type, clock, fault)
    /\ UNCHANGED <<callers, files, dirs, sender, gbuildversion, guuid, ncalls, files0, nres,
                   allok, log>>

NextKey == GenerateEventId

SpecKey == InitKey /\ [][NextKey]_vars

\* the same calls, log keeping the last two that returned a key
GenerateEventIdLogged ==
    /\ \E seed1 \in Seeds1, seed2 \in Seeds2, type \in KeyTypes,
          clock \in BootClocks, fault \in KeyFaults :
         LET c == KeyCallRecord(seed1, seed2, type, clock, fault)
         IN  /\ c.ret # NULL
             /\ call' = c
             /\ log' = IF Len(log) < 2 THEN Append(log, c) ELSE <<log[2], c>>
    /\ UNCHANGED <<callers, files, dirs, sender, gbuildversion, guuid, ncalls, files0, nres, allok>>

NextKeyPair == GenerateEventIdLogged

SpecKeyPair == InitKey /\ [][NextKeyPair]_vars

----------------------------------------------------------------------------
(* Claims about the DirectorySlotAllocator, checked under SpecDir *)

MaxDirs == atoi(sender.maxcrashdirs)

\* the last call was a generate_log_dir that returned a path
Reserved == call.op = "generate_log_dir" /\ call.ret # NULL

\* the counter file of mode m held the text "0" before the first call
StartsAtZero(m) ==
    /\ sender # NoSender
    /\ FileExists(files0, CounterPath(sender.outdir, m))
    /\ files0[CounterPath(sender.outdir, m)] = <<"0">>

\* the number a counter file stands for: its digits, 0 when missing or malformed
CounterValue(fs, m) ==
    LET path == CounterPath(sender.outdir, m)
    IN  IF FileExists(fs, path) /\ IsNumber(fs[path]) THEN DigitsVal(fs[path]) ELSE 0

SubdirName(m) ==
    CASE m = "MODE_CRASH" -> <<"c", "r", "a", "s", "h", "l", "o", "g">>
      [] m = "MODE_STATS" -> <<"s", "t", "a", "t", "s">>
      [] m = "MODE_VMEVENT" -> <<"v", "m", "e", "v", "e", "n", "t">>

\* C1: with a counter that starts at 0 and only successful calls on a category,
\* the k-th reservation of the category is given index (k-1) mod maxSlots, and
\* that index is the one in the returned path.
C1_RingOrder ==
    (Reserved /\ allok[call.mode] /\ StartsAtZero(call.mode)) =>
        /\ call.current = (nres[call.mode] - 1) % MaxDirs
        /\ call.ret = sender.outdir \o <<"/">> \o SubdirName(call.mode)
                        \o UDec((nres[call.mode] - 1) % MaxDirs) \o <<"_">>
                        \o call.hashkey

\* C1 witness: the reservation after maxSlots successful ones reuses index 0
C1_Wrapped ==
    /\ Reserved /\ allok[call.mode] /\ StartsAtZero(call.mode)
    /\ MaxDirs >= 2
    /\ nres[call.mode] = MaxDirs + 1
    /\ call.current = 0

\* C2 (as claimed): whatever number the counter file first held, once a category
\* has a reservation its persisted counter is in [0, maxSlots) and the index
\* given to every reserved directory is in [0, maxSlots).
C2_IndexInRange ==
    /\ \A m \in Modes : nres[m] >= 1 => CounterValue(files, m) \in 0..(MaxDirs - 1)
    /\ Reserved => call.current \in 0..(MaxDirs - 1)

\* C3 (as claimed): a returned path is <outdir>/<subdir>/<index>_<hashkey>, the
\* index being the counter value read by the call.
C3_PathWithSeparator ==
    [][(ncalls' = ncalls + 1 /\ Reserved') =>
          call'.ret = sender.outdir \o <<"/">> \o SubdirName(call'.mode) \o <<"/">>
                        \o UDec(CounterValue(files, call'.mode)) \o <<"_">>
                        \o call'.hashkey]_vars

\* C3 (amended): a returned path is <outdir>/<subdir><index>_<hashkey>: the
\* unpadded decimal counter value read by the call follows the subdir name
\* directly, with no path separator between them.
C3_PathNoSeparator ==
    [][(ncalls' = ncalls + 1 /\ Reserved') =>
          call'.ret = sender.outdir \o <<"/">> \o SubdirName(call'.mode)
                        \o UDec(CounterValue(files, call'.mode)) \o <<"_">>
                        \o call'.hashkey]_vars

\* C3 witness: the second stats reservation returned /v/stats1_b
C3_StatsOne ==
    /\ Reserved
    /\ call.ret = <<"/", "v", "/", "s", "t", "a", "t", "s", "1", "_", "b">>

\* the counter file of mode m is missing, or holds something that is no number
NoUsableCounter(fs, m) ==
    \/ ~FileExists(fs, CounterPath(sender.outdir, m))
    \/ ~IsNumber(fs[CounterPath(sender.outdir, m)])

\* C12: in every state where the counter file of a category is missing or
\* malformed, a generate_log_dir call of that category in which nothing else goes
\* wrong returns a path, the index it uses is 0, and the counter it persists is
\* 1 mod maxSlots.
C12_MissingCounterReadsZero ==
    \A mode \in Modes, hashkey \in HashKeys :
        (sender # NoSender /\ NoUsableCounter(files, mode)) =>
            LET r == generate_log_dir(files, dirs, sender, mode, hashkey, "none")
                taken == sender.outdir \o <<"/">> \o SubdirName(mode) \o <<"0", "_">>
                           \o hashkey
            IN  /\ taken \notin dirs => r.ret = taken
                /\ r.current = 0
                /\ CounterValue(r.files, mode) = 1 % MaxDirs
                /\ FileExists(r.files, CounterPath(sender.outdir, mode))

\* C12 witness: the first call of a category whose counter file did not exist
\* returned a path with index 0 and left the counter file holding 1
C12_FirstFromNothing ==
    /\ Reserved
    /\ ~FileExists(files0, CounterPath(sender.outdir, call.mode))
    /\ nres[call.mode] = 1 /\ allok[call.mode]
    /\ call.current = 0
    /\ files[CounterPath(sender.outdir, call.mode)] = <<"1">>

\* C16: a generate_log_dir call that fails after its counter update (at the path
\* construction or at mkdir) returns no path and creates no directory, and
\* leaves the counter one past the index it read, modulo maxSlots; a call that
\* returns a path uses the persisted counter as its index, so the reservation
\* after such a failure uses the index that follows the lost one.
C16_CounterKeptOnDirFailure ==
    [][(ncalls' = ncalls + 1 /\ sender # NoSender /\ call'.mode \in Modes) =>
          /\ call'.infoerror =>
               /\ call'.ret = NULL
               /\ dirs' = dirs
               /\ call'.current = CounterValue(files, call'.mode)
               /\ CounterValue(files', call'.mode) = (call'.current + 1) % MaxDirs
          /\ Reserved' => call'.current = CounterValue(files, call'.mode)]_vars

\* C16 witness: a category that started at 0 lost index 0 to a failed call, and
\* its first returned path has index 1
C16_IndexAfterLostSlot ==
    /\ Reserved /\ StartsAtZero(call.mode)
    /\ nres[call.mode] = 1 /\ ~allok[call.mode]
    /\ call.current = 1

\* the name of the counter file of a mode
CounterName(m) ==
    CASE m = "MODE_CRASH" -> <<"c", "u", "r", "r", "e", "n", "t", "c", "r", "a", "s", "h", "l", "o", "g">>
      [] m = "MODE_STATS" -> <<"c", "u", "r", "r", "e", "n", "t", "s", "t", "a", "t", "s", "l", "o", "g">>
      [] m = "MODE_VMEVENT" -> <<"c", "u", "r", "r", "e", "n", "t", "v", "m", "l", "o", "g">>

\* C17: in every state, a generate_log_dir call leaves every file but the counter
\* file of its own category as it was (the other two counters and the boot
\* record among them), and a call without a sender, with an invalid mode or
\* with an unreadable counter returns no path, changes no file and creates no
\* directory.
C17_OnlyOwnCounter ==
    \A mode \in AnyMode, hashkey \in HashKeys, fault \in DirFaults :
        LET r == generate_log_dir(files, dirs, sender, mode, hashkey, fault)
            own == IF sender # NoSender /\ mode \in Modes
                   THEN {sender.outdir \o <<"/">> \o CounterName(mode)} ELSE {}
        IN  /\ \A p \in ((DOMAIN files) \cup (DOMAIN r.files)) \ own :
                   p \in DOMAIN files /\ p \in DOMAIN r.files /\ r.files[p] = files[p]
            /\ (sender = NoSender \/ mode \notin Modes \/ fault = "read") =>
                   r.ret = NULL /\ r.files = files /\ r.dirs = dirs

\* C17 witness: after stats reservations only, the stats counter has moved while
\* the crash counter, the vm counter and the boot record are as they started
C17_StatsOnly ==
    /\ Reserved /\ call.mode = "MODE_STATS" /\ StartsAtZero("MODE_STATS")
    /\ files[CounterPath(sender.outdir, "MODE_STATS")] = <<"1">>
    /\ files[CounterPath(sender.outdir, "MODE_CRASH")] = <<"0">>
    /\ files[CounterPath(sender.outdir, "MODE_VMEVENT")] = <<"0">>
    /\ BootRecord(files, sender) = BootIdA

----------------------------------------------------------------------------
(* Claims about the BootSessionTracker, checked under SpecBoot *)

\* call c had a configured sender, a readable non-empty boot id, and no failing write
BootIdKnown(c) == sender # NoSender /\ c.node.res = 0 /\ c.node.data # <<>>
                  /\ c.fault # "write"

\* C4 (as claimed): after a call that reports changed (first seen included),
\* whatever the record was before (absent, empty, unreadable, equal, different),
\* the record holds the current boot id and the next call under the same boot id
\* reports unchanged; a call that reports unchanged does not write the record.
C4_RecordFollowsBootId ==
    \A i \in 1..Len(log) :
        BootIdKnown(log[i]) =>
            /\ log[i].result = 1 => log[i].after = log[i].node.data
            /\ log[i].result = 0 => ~log[i].wrote /\ log[i].after = log[i].prior
            /\ (log[i].result = 1 /\ i < Len(log) /\ log[i + 1].node = log[i].node
                  /\ log[i + 1].fault = "none") => log[i + 1].result = 0

\* the first three calls ran on a root without a record, under boot ids a, a, b,
\* and nothing failed
FreshAAB(a, b) ==
    /\ Len(log) >= 3
    /\ sender # NoSender
    /\ log[1].prior = NULL
    /\ \A i \in 1..3 : log[i].fault = "none" /\ log[i].node.res = 0
    /\ log[1].node.data = a /\ log[2].node.data = a /\ log[3].node.data = b

BootIds == {BootIdA, BootIdB}

\* C5 (as claimed): on a fresh root the calls under boot ids A, A, B report
\* FirstSeen, Unchanged, Changed, FirstSeen being told apart from Changed; the
\* record holds A, is not rewritten, then holds B.
C5_FirstSeenDistinct ==
    \A a \in BootIds : \A b \in BootIds \ {a} :
        FreshAAB(a, b) =>
            /\ log[1].result # 0 /\ log[2].result = 0 /\ log[3].result # 0
            /\ log[1].result # log[3].result
            /\ log[1].after = a /\ ~log[2].wrote /\ log[2].after = a
            /\ log[3].after = b

\* C5 (amended): on a fresh root the calls under boot ids A, A, B return 1
\* (changed), 0 (unchanged), 1 (changed): a first-seen boot id is reported as
\* changed, with the same value; the record holds A after the first call, is
\* not written by the second, and holds B after the third.
C5_ChangedUnchangedChanged ==
    \A a \in BootIds : \A b \in BootIds \ {a} :
        FreshAAB(a, b) =>
            /\ log[1].result = 1 /\ log[2].result = 0 /\ log[3].result = 1
            /\ log[1].after = a /\ log[1].wrote
            /\ ~log[2].wrote /\ log[2].after = a
            /\ log[3].after = b /\ log[3].wrote

\* C5 witness: the three calls A, A, B on a fresh root were made
C5_ThreeCalls == FreshAAB(BootIdA, BootIdB) /\ BootRecord(files, sender) = BootIdB

\* the boot-id node could not be read, or was read as empty
NoBootId(c) == c.node.res = -1 \/ c.node.data = <<>>

\* C14: every call made while the boot-id node is unreadable or empty reports
\* changed (1) and does not write: the boot record after the call is the one
\* before it, absent if it was absent.
C14_NoBootIdNoWrite ==
    \A i \in 1..Len(log) :
        NoBootId(log[i]) =>
            /\ log[i].result = 1
            /\ ~log[i].wrote
            /\ log[i].after = log[i].prior

\* C14 witness: calls with an unreadable and with an empty node were made, one
\* over a record holding a boot id and one on a root without a record
C14_BothKinds ==
    /\ sender # NoSender
    /\ \E i \in 1..Len(log) :
           log[i].node.res = -1 /\ log[i].prior = BootIdA /\ log[i].after = BootIdA
    /\ \E i \in 1..Len(log) :
           log[i].node.res = 0 /\ log[i].node.data = <<>> /\ log[i].prior = NULL
             /\ log[i].after = NULL /\ log[i].result = 1

----------------------------------------------------------------------------
(* Claims about the CrashReportWriter, checked under SpecReport *)

\* the last call was a generate_crashfile that wrote the crashfile
ReportWritten == call.op = "generate_crashfile" /\ call.wrote

EndsWith(s, suffix) ==
    Len(s) >= Len(suffix) /\ SubSeq(s, Len(s) - Len(suffix) + 1, Len(s)) = suffix

\* C6 (as claimed): whatever the lengths of the values, the crashfile written
\* ends with a line that is exactly _END.
C6_LastLineIsEnd ==
    ReportWritten =>
        EndsWith(files[CrashfilePath], <<"\n", "_", "E", "N", "D", "\n">>)

\* the line KEY=<value>, absent when the value is NULL
Line(key, value) == IF value = NULL THEN <<>> ELSE key \o value \o <<"\n">>

\* C7 (as claimed): the crashfile holds EVENT, ID, DEVICEID, DATE, UPTIME, BUILD
\* and TYPE in that order, each with the full value, then DATAn for each
\* non-null data argument, then _END.
C7_AllLinesInOrder ==
    ReportWritten =>
        files[CrashfilePath] =
            Line(<<"E", "V", "E", "N", "T", "=">>, call.args.event)
            \o Line(<<"I", "D", "=">>, call.args.hashkey)
            \o Line(<<"D", "E", "V", "I", "C", "E", "I", "D", "=">>, guuid)
            \o Line(<<"D", "A", "T", "E", "=">>, call.datetime)
            \o Line(<<"U", "P", "T", "I", "M", "E", "=">>, call.uptime)
            \o Line(<<"B", "U", "I", "L", "D", "=">>, gbuildversion)
            \o Line(<<"T", "Y", "P", "E", "=">>, call.args.type)
            \o Line(<<"D", "A", "T", "A", "0", "=">>, call.args.data0)
            \o Line(<<"D", "A", "T", "A", "1", "=">>, call.args.data1)
            \o Line(<<"D", "A", "T", "A", "2", "=">>, call.args.data2)
            \o <<"_", "E", "N", "D", "\n">>

\* the last call was a generate_crashfile whose overwrite_file failed
WriteFailed ==
    call.op = "generate_crashfile" /\ call.wall.ok /\ call.fault = "write"

\* C13 (as claimed): when overwrite_file fails, generate_crashfile hands its
\* caller a result that differs from the one of a successful write.
C13_WriteFailureReturned == WriteFailed => call.ret # VoidResult

\* C13 (amended): when overwrite_file fails, generate_crashfile logs the error
\* and returns nothing, as it does after a successful write; overwrite_file is
\* called once and the crashfile is as it was before the call.
C13_WriteFailureLoggedOnly ==
    WriteFailed =>
        /\ call.ret = VoidResult
        /\ call.loge
        /\ ~call.wrote
        /\ call.writes = 1
        /\ files = files0

\* C13 witness: the write over an existing crashfile failed and was logged
C13_FailedOverOld ==
    /\ WriteFailed /\ call.loge
    /\ FileExists(files0, CrashfilePath)
    /\ files[CrashfilePath] = <<"o", "l", "d", "\n">>

\* C18: when the local time cannot be obtained, generate_crashfile does not
\* call overwrite_file and logs nothing: the files (the crashfile among them,
\* present or not) and the directories are as they were before the call.
C18_NoDateNoReport ==
    (call.op = "generate_crashfile" /\ ~call.wall.ok) =>
        /\ files = files0
        /\ dirs = {ReportDir}
        /\ call.writes = 0
        /\ ~call.wrote
        /\ ~call.loge

\* C18 witness: a call without local time left an existing crashfile alone, in
\* a run where nothing else would have failed
C18_OldReportKept ==
    /\ call.op = "generate_crashfile" /\ ~call.wall.ok /\ call.fault = "none"
    /\ call.clock.res = 0
    /\ FileExists(files, CrashfilePath)
    /\ files[CrashfilePath] = <<"o", "l", "d", "\n">>

HasPrefix(s, prefix) == Len(s) >= Len(prefix) /\ SubSeq(s, 1, Len(prefix)) = prefix

\* C19: when the boot-relative clock cannot be read, the local time can, and
\* nothing else fails, generate_crashfile writes the crashfile and logs nothing;
\* the file starts with the EVENT, ID, DEVICEID and DATE lines, followed by the
\* line UPTIME= with nothing after the equals sign, followed by the BUILD line,
\* and it ends with _END.
C19_EmptyUptimeLine ==
    (call.op = "generate_crashfile" /\ call.wall.ok /\ call.clock.res = -1
        /\ call.fault = "none") =>
        /\ call.wrote
        /\ ~call.loge
        /\ HasPrefix(files[CrashfilePath],
                     Line(<<"E", "V", "E", "N", "T", "=">>, call.args.event)
                     \o Line(<<"I", "D", "=">>, call.args.hashkey)
                     \o Line(<<"D", "E", "V", "I", "C", "E", "I", "D", "=">>, guuid)
                     \o <<"D", "A", "T", "E", "=", "2", "0", "1", "8", "-", "0", "6", "-",
                          "0", "1", "/", "0", "9", ":", "3", "0", ":", "0", "5", " ", " ",
                          "\n">>
                     \o <<"U", "P", "T", "I", "M", "E", "=", "\n">>
                     \o <<"B", "U", "I", "L", "D", "=">>)
        /\ EndsWith(files[CrashfilePath], <<"_", "E", "N", "D", "\n">>)

\* C19 witness: a report with the line UPTIME= was written over nothing
C19_WrittenWithoutUptime ==
    /\ call.op = "generate_crashfile" /\ call.wall.ok /\ call.clock.res = -1
    /\ call.wrote /\ call.uptime = <<>>
    /\ ~FileExists(files0, CrashfilePath)
    /\ FileExists(files, CrashfilePath)

----------------------------------------------------------------------------
(* Claims about the HashKeyGenerator, checked under SpecKey *)

KeyCall == call.op = "generate_event_id"

ValidType(c) == c.type \in {"KEY_SHORT", "KEY_LONG"}

C9_NoKeyWithoutClock ==
    (KeyCall /\ call.clock.res = -1) => call.ret = NULL

\* the time get_uptime reads, in nanoseconds, as the pair (seconds, nanoseconds)
TimeOf(c) == <<c.clock.tv_sec, c.clock.tv_nsec>>

\* C10 (as claimed): two calls with identical seeds and different readable
\* boot-relative timestamps feed different byte sequences to the hash.
C10_SaltFollowsTime ==
    (Len(log) = 2 /\ log[1].ret # NULL /\ log[2].ret # NULL
       /\ log[1].seed1 = log[2].seed1 /\ log[1].seed2 = log[2].seed2
       /\ log[1].clock.res = 0 /\ log[2].clock.res = 0
       /\ TimeOf(log[1]) # TimeOf(log[2])) =>
        log[1].fed # log[2].fed

\* the characters 0-9 and a-f
LowerHex == {"0", "1", "2", "3", "4", "5", "6", "7", "8", "9", "a", "b", "c", "d", "e", "f"}

\* the value of a lowercase hex digit
HexVal(c) == CHOOSE v \in 0..15 :
                 <<"0", "1", "2", "3", "4", "5", "6", "7", "8", "9", "a", "b", "c", "d", "e", "f">>[v + 1] = c

\* C11: a returned key has 20 characters for KEY_SHORT and 32 for KEY_LONG, all
\* in [0-9a-f], and is the hex encoding, two characters a byte, of the leading
\* half-as-many bytes of the digest of the bytes fed; any other type returns no
\* key.
C11_KeyIsHexOfDigest ==
    KeyCall =>
        /\ ~ValidType(call) => call.ret = NULL
        /\ call.ret # NULL =>
             /\ Len(call.ret) = (IF call.type = "KEY_SHORT" THEN 20 ELSE 32)
             /\ \A i \in 1..Len(call.ret) : call.ret[i] \in LowerHex
             /\ \A j \in 1..(Len(call.ret) \div 2) :
                    16 * HexVal(call.ret[2 * j - 1]) + HexVal(call.ret[2 * j])
                        = SHA256(call.fed)[j]

\* C11 witness: a KEY_LONG call returned a key of 32 characters
C11_LongKey == KeyCall /\ call.type = "KEY_LONG" /\ call.ret # NULL /\ Len(call.ret) = 32

----------------------------------------------------------------------------
(* Claims about the uptime string, checked under SpecUptime *)

----------------------------------------------------------------------------
(* Claims about two concurrent callers, checked under SpecRace *)

\* the place in the run of caller p's counter read or counter update
StepAt(p, op) == CHOOSE i \in 1..Len(log) : log[i].op = op /\ log[i].caller = p

\* both callers updated the counter of the same category
BothUpdated ==
    /\ \A p \in Callers : callers[p].updated
    /\ callers[1].mode = callers[2].mode

\* both callers read the counter before either of them updated it
ReadsBeforeUpdates ==
    \A p \in Callers : \A q \in Callers : StepAt(p, "read") < StepAt(q, "update")

\* one caller updated the counter before the other read it
OneAfterTheOther ==
    \E p \in Callers : \E q \in Callers \ {p} : StepAt(p, "update") < StepAt(q, "read")

\* C15: when two callers of one category both read the counter before either
\* updates it, both use the same index and the persisted counter is one past
\* that index modulo maxSlots, not two; when one caller updates before the other
\* reads and maxSlots >= 2, the two use different indices.
C15_LostUpdate ==
    BothUpdated =>
        /\ ReadsBeforeUpdates =>
             /\ callers[1].current = callers[2].current
             /\ CounterValue(files, callers[1].mode) = (callers[1].current + 1) % MaxDirs
        /\ (OneAfterTheOther /\ MaxDirs >= 2) =>
             callers[1].current # callers[2].current

\* C15 witness: with two slots and a counter at 0, two interleaved callers both
\* returned a directory of index 0 and the counter holds 1
C15_SameIndexTwice ==
    /\ BothUpdated /\ ReadsBeforeUpdates
    /\ MaxDirs = 2
    /\ \A p \in Callers : callers[p].pc = "done" /\ callers[p].ret # NULL
                            /\ callers[p].current = 0
    /\ files[CounterPath(sender.outdir, callers[1].mode)] = <<"1">>

====
